---- MODULE Spec2Model ----
(***************************************************************************)
(* Model of mzt-downloader (src/src/lib.rs): the AlbumSearcher pagination  *)
(* and page-cache engine, and the bounded concurrent download pipeline     *)
(* Album::download_pictures.                                               *)
(*                                                                         *)
(* A Searcher operation is one action: it holds `&mut self` from start to  *)
(* end, so no other operation of the same Searcher interleaves with it.    *)
(* What the parser answers to a fetch (a failure, or an album list and a   *)
(* reported total) is the environment's choice, drawn with \E.             *)
(***************************************************************************)
EXTENDS Integers, Sequences, FiniteSets, TLC

\* ------------------------------------------------------------------ bounds

\* Largest total page count a parser reports in the navigation model.
MaxTotal == 2

\* Number of albums of a full search page.
MaxAlbums == 2

\* Largest picture list of an album downloaded from the navigation model.
MaxNavPictures == 1

\* Largest picture list of an album in the pipeline model.
MaxPictures == 17

\* Longest picture list whose URLs are drawn freely; a longer list alternates
\* an unreachable and a good URL.
MaxMixedPictures == 2

\* Operations allowed after the first one that is not a plain `next`, in the
\* deep-paging model.
MaxRandomOps == 3

\* Longest album name given to filenamify.
MaxNameLen == 3

\* Times filenamify is applied in a row to one name.
MaxApplications == 2

\* Requests the server receives in the server model.
MaxRequests == 3

\* Elements a search result page holds for the page-indicator selector.
MaxPagers == 2

\* `.pagelist>a` elements of an album page: the album has one sub-page more.
MaxIndicators == 2

\* img elements of one album sub-page.
MaxSubPictures == 2

\* ------------------------------------------------------- program constants

\* LruCache::new(NonZeroUsize::new(64).unwrap())
CacheCapacity == 64

\* Semaphore::new(16)
Permits == 16

\* ------------------------------------------------------------------- state

VARIABLES
    page,        \* AlbumSearcher.page (u32, 0 = not positioned)
    page_count,  \* AlbumSearcher.page_count (u32, 0 = unknown)
    albums,      \* AlbumSearcher.albums: the LRU cache, most recently used first
    last,        \* observation of the last Searcher operation (call, result, parser calls)
    accessLog,   \* every page key ever read or written through the cache, most recent first
    randomOps,   \* operations counted against MaxRandomOps (deep-paging model only)
    bpc,         \* position of download_pictures: idle, list, mkdir, run
    balbum,      \* the Album download_pictures runs on
    pictures,    \* the picture URL list get_all_pictures returned
    spawned,     \* number of picture URLs the scheduling loop has spawned a task for
    running,     \* tasks spawned and not yet finished
    permits,     \* permits the semaphore has left
    joined,      \* number of tasks the join loop has awaited
    progress,    \* position of the progress bar (pb.inc)
    files,       \* units whose file was written
    dirCreated,  \* whether create_dir_all ran successfully
    bresult,     \* what download_pictures returned: none, ok, list error, mkdir error
    names,       \* an album name followed by the results of filenamify applied in a row
    searcher_cache, \* WebState.searcher_cache: key -> <<Searcher>>, <<>> when absent
    parser_cache,   \* WebState.parser_cache: the parser codes it holds a Parser for
    guard,       \* the request holding a RefMut into searcher_cache (its keys taken to
                 \* share one shard), 0 when none
    req,         \* per client: the request being served, its position and its response
    received,    \* requests received so far
    parserRun,   \* the site parser's call in progress or last finished, and its result
    cli          \* main's locals: searcher (Some or None), parser, prompt_context, position

vars == <<page, page_count, albums, last, accessLog, randomOps, bpc, balbum,
          pictures, spawned, running, permits, joined, progress, files, dirCreated,
          bresult, names, searcher_cache, parser_cache, guard, req, received,
          parserRun, cli>>

webVars == <<searcher_cache, parser_cache, guard, req, received>>

\* ------------------------------------------------------------ the LRU cache
\* lru::LruCache<String, Vec<Album>> as a sequence of [key, val], head = most
\* recently used.

\* format!("page-{}", page): injective in the page number.
PageKey(p) == <<"page-", p>>

LruKeys(c) == [i \in DOMAIN c |-> c[i].key]

\* LruCache::contains: no change of recency.
LruContains(c, k) == \E i \in DOMAIN c : c[i].key = k

LruIndex(c, k) == CHOOSE i \in DOMAIN c : c[i].key = k

LruWithout(c, i) == SubSeq(c, 1, i - 1) \o SubSeq(c, i + 1, Len(c))

\* LruCache::get, the value: Some(val) as <<val>>, None as <<>>.
LruValue(c, k) == IF LruContains(c, k) THEN <<c[LruIndex(c, k)].val>> ELSE <<>>

\* A get that reads without promoting the entry (LruCache::peek).
LruGet_NoPromote(c, k) == c

\* LruCache::get, the cache afterwards: a hit moves the entry to the head.
LruGet(c, k) ==
    IF LruContains(c, k)
    THEN <<c[LruIndex(c, k)]>> \o LruWithout(c, LruIndex(c, k))
    ELSE c

\* A push that stores nothing.
LruPush_Drop(c, k, v) == c

\* LruCache::push: replaces a present key, else evicts the tail at capacity;
\* the pushed entry becomes the head.
LruPush(c, k, v) ==
    LET e == [key |-> k, val |-> v] IN
    IF LruContains(c, k) THEN <<e>> \o LruWithout(c, LruIndex(c, k))
    ELSE IF Len(c) >= CacheCapacity THEN <<e>> \o SubSeq(c, 1, CacheCapacity - 1)
    ELSE <<e>> \o c

\* --------------------------------------------------------------- the parser

\* struct Album {name, url}: the i-th album the site lists on page p.
Album(p, i) == [name |-> <<"album", p, i>>, url |-> <<"url", p, i>>]

\* What Parser::parse_albums answers to one call: Err, or Ok((albums, page_count))
\* with n albums and a reported total. A page that is served holds no album or
\* a full page of them.
FetchFailed == [kind |-> "fail", total |-> 0, n |-> 0]

Responses(maxTotal, maxAlbums) ==
    {FetchFailed} \cup [kind : {"ok"}, total : 0..maxTotal, n : {0, maxAlbums}]

ParsedAlbums(p, r) == [i \in 1..r.n |-> Album(p, i)]

\* --------------------------------------------------------------- Searcher
\* An operation threads a record t through its steps: the Searcher's fields and
\* what the call did: the pages the parser was asked for (`fetched`) and the
\* totals it reported (`reported`), the Result (`res`), Some or None (`some`),
\* the total the clamp of jump used (`clampTotal`, <<>> when it did not clamp),
\* and about the latest get_albums whether it asked the parser (`asked`) and
\* where its key stood in the log of accesses (`rank`, 0 when never accessed).

\* AlbumSearcher::new: page 0, page_count 0, empty cache.
NewSearcher == [page |-> 0, page_count |-> 0, albums |-> <<>>]

Begin ==
    [page |-> page, page_count |-> page_count, albums |-> albums,
     log |-> accessLog, fetched |-> <<>>, reported |-> <<>>, res |-> "ok",
     some |-> FALSE, clampTotal |-> <<>>, asked |-> FALSE, rank |-> 0,
     hand |-> <<>>]

\* The log of accesses after key k is read or written: k moves to the head.
Touch(log, k) ==
    LET Other(x) == x # k IN <<k>> \o SelectSeq(log, Other)

\* Where k stands in the log, 1 = most recently accessed, 0 = never.
Rank(log, k) ==
    IF \E i \in DOMAIN log : log[i] = k
    THEN CHOOSE i \in DOMAIN log : log[i] = k
    ELSE 0

\* get_albums storing whatever total the parser reports.
GetAlbums_Overwrite(t, r) ==
    LET key == PageKey(t.page) IN
    IF LruContains(t.albums, key)
    THEN [t EXCEPT !.albums = LruGet(@, key),
                   !.some = TRUE,
                   !.asked = FALSE,
                   !.rank = Rank(t.log, key),
                   !.log = Touch(@, key)]
    ELSE IF r.kind = "fail"
    THEN [t EXCEPT !.fetched = Append(@, t.page),
                   !.res = "fetch error",
                   !.some = FALSE,
                   !.asked = TRUE,
                   !.rank = Rank(t.log, key)]
    ELSE LET pushed == LruPush(t.albums, key, ParsedAlbums(t.page, r)) IN
         [t EXCEPT !.fetched = Append(@, t.page),
                   !.reported = Append(@, r.total),
                   !.page_count = r.total,
                   !.albums = LruGet(pushed, key),
                   !.some = LruContains(pushed, key),
                   !.asked = TRUE,
                   !.rank = Rank(t.log, key),
                   !.log = Touch(@, key)]

\* get_albums answering Ok(None) when the parser fails.
GetAlbums_SwallowError(t, r) ==
    LET key == PageKey(t.page) IN
    IF LruContains(t.albums, key)
    THEN [t EXCEPT !.albums = LruGet(@, key),
                   !.some = TRUE,
                   !.asked = FALSE,
                   !.rank = Rank(t.log, key),
                   !.log = Touch(@, key)]
    ELSE IF r.kind = "fail"
    THEN [t EXCEPT !.fetched = Append(@, t.page),
                   !.some = FALSE,
                   !.asked = TRUE,
                   !.rank = Rank(t.log, key)]
    ELSE LET pushed == LruPush(t.albums, key, ParsedAlbums(t.page, r)) IN
         [t EXCEPT !.fetched = Append(@, t.page),
                   !.reported = Append(@, r.total),
                   !.page_count = IF @ = 0 \/ @ < r.total THEN r.total ELSE @,
                   !.albums = LruGet(pushed, key),
                   !.some = LruContains(pushed, key),
                   !.asked = TRUE,
                   !.rank = Rank(t.log, key),
                   !.log = Touch(@, key)]

\* get_albums asking the parser whether or not the page is cached.
GetAlbums_AlwaysAsk(t, r) ==
    LET key == PageKey(t.page) IN
    IF r.kind = "fail"
    THEN [t EXCEPT !.fetched = Append(@, t.page),
                   !.res = "fetch error",
                   !.some = FALSE,
                   !.asked = TRUE,
                   !.rank = Rank(t.log, key)]
    ELSE LET pushed == LruPush(t.albums, key, ParsedAlbums(t.page, r)) IN
         [t EXCEPT !.fetched = Append(@, t.page),
                   !.reported = Append(@, r.total),
                   !.page_count = IF @ = 0 \/ @ < r.total THEN r.total ELSE @,
                   !.albums = LruGet(pushed, key),
                   !.some = LruContains(pushed, key),
                   !.asked = TRUE,
                   !.rank = Rank(t.log, key),
                   !.log = Touch(@, key)]

\* AlbumSearcher::get_albums with r the parser's answer should it be asked.
GetAlbums(t, r) ==
    LET key == PageKey(t.page) IN
    IF LruContains(t.albums, key)
    THEN [t EXCEPT !.albums = LruGet(@, key),
                   !.some = TRUE,
                   !.asked = FALSE,
                   !.rank = Rank(t.log, key),
                   !.log = Touch(@, key)]
    ELSE IF r.kind = "fail"
    THEN [t EXCEPT !.fetched = Append(@, t.page),
                   !.res = "fetch error",
                   !.some = FALSE,
                   !.asked = TRUE,
                   !.rank = Rank(t.log, key)]
    ELSE LET pushed == LruPush(t.albums, key, ParsedAlbums(t.page, r)) IN
         [t EXCEPT !.fetched = Append(@, t.page),
                   !.reported = Append(@, r.total),
                   !.page_count = IF @ = 0 \/ @ < r.total THEN r.total ELSE @,
                   !.albums = LruGet(pushed, key),
                   !.some = LruContains(pushed, key),
                   !.asked = TRUE,
                   !.rank = Rank(t.log, key),
                   !.log = Touch(@, key)]

\* AlbumSearcher::current
CurrentOp(t, r) ==
    GetAlbums([t EXCEPT !.page = IF t.page_count = 0 THEN 1 ELSE @], r)

\* AlbumSearcher::prev
PrevOp(t, r) ==
    GetAlbums([t EXCEPT !.page = IF @ > 1 THEN @ - 1 ELSE 1], r)

\* A next that advances past the last page.
NextOp_NoStop(t, r) ==
    GetAlbums([t EXCEPT !.page = IF t.page_count = 0 THEN 1 ELSE @ + 1], r)

\* AlbumSearcher::next
NextOp(t, r) ==
    GetAlbums([t EXCEPT !.page = IF t.page_count = 0 THEN 1
                                 ELSE IF @ < t.page_count THEN @ + 1
                                 ELSE @], r)

\* AlbumSearcher::first
FirstOp(t, r) == GetAlbums([t EXCEPT !.page = 1], r)

\* No discovery fetch at all.
Discover_Never(t, r) == t

\* The discovery fetch of last and jump: `self.next().await?` when the total is
\* unknown.
Discover(t, r) == IF t.page_count = 0 THEN NextOp(t, r) ELSE t

\* AlbumSearcher::last
LastOp(t, r1, r2) ==
    LET d == Discover(t, r1) IN
    IF d.res # "ok" THEN d
    ELSE GetAlbums([d EXCEPT !.page = d.page_count], r2)

\* A jump that takes the requested page as it is.
Clamp_None(pc, n) == n

\* The clamp of jump, once the total is known to be pc.
Clamp(pc, n) == IF pc < n THEN pc ELSE n

\* A jump that clamps into the total it knows, without a discovery fetch.
JumpOp_NoDiscovery(t, n, r1, r2) ==
    IF n < 1 THEN GetAlbums([t EXCEPT !.page = 1], r2)
    ELSE GetAlbums([t EXCEPT !.page = Clamp(t.page_count, n),
                             !.clampTotal = <<t.page_count>>], r2)

\* AlbumSearcher::jump
JumpOp(t, n, r1, r2) ==
    IF n < 1 THEN GetAlbums([t EXCEPT !.page = 1], r2)
    ELSE LET d == Discover(t, r1) IN
         IF d.res # "ok" THEN d
         ELSE GetAlbums([d EXCEPT !.page = Clamp(d.page_count, n),
                                  !.clampTotal = <<d.page_count>>], r2)

\* AlbumSearcher::download up to the call of download_pictures: `hand` holds the
\* album handed to the pipeline, if the checks pass.
DownloadOp(t, idx) ==
    IF t.page_count = 0 THEN [t EXCEPT !.res = "no data"]
    ELSE IF t.page = 0 THEN [t EXCEPT !.res = "no data"]
    ELSE IF idx = 0 THEN [t EXCEPT !.res = "error album index"]
    ELSE LET key == PageKey(t.page)
             got == LruValue(t.albums, key) IN
         IF got = <<>> THEN [t EXCEPT !.res = "current page no data"]
         ELSE LET u == [t EXCEPT !.albums = LruGet(@, key),
                                 !.log = Touch(@, key)] IN
              IF idx > Len(got[1]) THEN [u EXCEPT !.res = "error album index"]
              ELSE [u EXCEPT !.hand = <<got[1][idx]>>, !.res = "pending"]

\* ------------------------------------------------------ download pipeline

\* Picture URLs, by what fetching them does: "good" is served with a success
\* status; "status404" is served with an error status and an error body;
\* "unreachable" fails in send(); "nofilename" has no last path segment, so
\* get_picture_name fails.
PictureUrls == {"good", "status404", "unreachable", "nofilename"}

\* A list whose odd places hold an unreachable URL and whose even places a
\* good one.
Alternating(n) == [i \in 1..n |-> IF i % 2 = 1 THEN "unreachable" ELSE "good"]

\* The picture lists get_all_pictures may return, up to maxLen URLs.
PictureLists(maxLen) ==
    LET mixed == IF maxLen < MaxMixedPictures THEN maxLen ELSE MaxMixedPictures IN
    UNION {[1..n -> PictureUrls] : n \in 0..mixed}
    \cup {Alternating(n) : n \in 0..maxLen}

\* Album::download_picture on one URL: Ok or Err, and whether a file was written.
\* The response's status is never looked at: bytes() of an error response is its
\* body, which is written like any other.
DownloadPicture(url) ==
    IF url = "unreachable" THEN [ok |-> FALSE, written |-> FALSE]
    ELSE IF url = "nofilename" THEN [ok |-> FALSE, written |-> FALSE]
    ELSE [ok |-> TRUE, written |-> TRUE]

\* The locals of download_pictures before it runs.
BatchIdle ==
    /\ bpc' = "idle"
    /\ balbum' = <<>>
    /\ pictures' = <<>>
    /\ spawned' = 0
    /\ running' = {}
    /\ permits' = Permits
    /\ joined' = 0
    /\ progress' = 0
    /\ files' = {}
    /\ dirCreated' = FALSE
    /\ bresult' = "none"

\* A scheduling loop that spawns without waiting for a permit.
PermitFree_Always == TRUE

\* `semaphore.clone().acquire_owned().await?` returns once a permit is free.
PermitFree == permits > 0

\* A task that keeps its permit.
Released_Never(o) == 0

\* A task that gives its permit back only in the Ok arm.
Released_OnOkOnly(o) == IF o.ok THEN 1 ELSE 0

\* `drop(permit)` at the end of the task, after either arm of the match: the
\* number of permits a task that ended with outcome o gives back.
Released(o) == 1

\* A batch that fails when one of its units failed.
BatchResult_FailIfAnyFailed(n, nOk) == IF nOk < n THEN "units failed" ELSE "ok"

\* What download_pictures returns after the join loop, with n units and nOk of
\* them successful: Ok(()).
BatchResult(n, nOk) == "ok"

\* A pipeline that creates the directory before it lists the pictures.
ListPictures_MkdirFirst(lists) ==
    /\ bpc = "list"
    /\ dirCreated' = TRUE
    /\ \/ /\ \E l \in lists : pictures' = l
          /\ bpc' = "run"
          /\ UNCHANGED <<bresult, last>>
       \/ /\ bpc' = "idle"
          /\ bresult' = "list error"
          /\ last' = [last EXCEPT !.res = "list error"]
          /\ UNCHANGED pictures
    /\ UNCHANGED <<webVars, names, parserRun, cli, page, page_count, albums, accessLog, randomOps, balbum,
                   spawned, running, permits, joined, progress, files>>

\* download_pictures line 79: parser.get_all_pictures(url).await?
ListPictures(lists) ==
    /\ bpc = "list"
    /\ \/ /\ \E l \in lists : pictures' = l
          /\ bpc' = "mkdir"
          /\ UNCHANGED <<bresult, last>>
       \/ /\ bpc' = "idle"
          /\ bresult' = "list error"
          /\ last' = [last EXCEPT !.res = "list error"]
          /\ UNCHANGED pictures
    /\ UNCHANGED <<webVars, names, parserRun, cli, page, page_count, albums, accessLog, randomOps, balbum, spawned,
                   running, permits, joined, progress, files, dirCreated>>

\* download_pictures lines 80-82: tokio::fs::create_dir_all(&path).await?
MakeDir ==
    /\ bpc = "mkdir"
    /\ \/ /\ dirCreated' = TRUE
          /\ bpc' = "run"
          /\ UNCHANGED <<bresult, last>>
       \/ /\ bpc' = "idle"
          /\ bresult' = "mkdir error"
          /\ last' = [last EXCEPT !.res = "mkdir error"]
          /\ UNCHANGED dirCreated
    /\ UNCHANGED <<webVars, names, parserRun, cli, page, page_count, albums, accessLog, randomOps, balbum, pictures,
                   spawned, running, permits, joined, progress, files>>

\* One iteration of `for url in pictures`: take a permit, spawn the task.
Spawn ==
    /\ bpc = "run"
    /\ spawned < Len(pictures)
    /\ PermitFree
    /\ spawned' = spawned + 1
    /\ running' = running \cup {spawned + 1}
    /\ permits' = permits - 1
    /\ UNCHANGED <<webVars, names, parserRun, cli, page, page_count, albums, last, accessLog, randomOps, bpc, balbum,
                   pictures, joined, progress, files, dirCreated, bresult>>

\* A task that advances the progress bar whatever download_picture returned.
UnitFinish_CountsFailures(i) ==
    /\ bpc = "run"
    /\ i \in running
    /\ LET o == DownloadPicture(pictures[i]) IN
       /\ progress' = progress + 1
       /\ files' = IF o.written THEN files \cup {i} ELSE files
       /\ permits' = permits + Released(o)
    /\ running' = running \ {i}
    /\ UNCHANGED <<webVars, names, parserRun, cli, page, page_count, albums, last, accessLog, randomOps,
                   bpc, balbum, pictures, spawned, joined, dirCreated, bresult>>

\* A spawned task runs to its end: download_picture, pb.inc on Ok, the log on
\* Err, then drop(permit).
UnitFinish(i) ==
    /\ bpc = "run"
    /\ i \in running
    /\ LET o == DownloadPicture(pictures[i]) IN
       /\ progress' = IF o.ok THEN progress + 1 ELSE progress
       /\ files' = IF o.written THEN files \cup {i} ELSE files
       /\ permits' = permits + Released(o)
    /\ running' = running \ {i}
    /\ UNCHANGED <<webVars, names, parserRun, cli, page, page_count, albums, last, accessLog, randomOps, bpc, balbum,
                   pictures, spawned, joined, dirCreated, bresult>>

\* A join loop that does not wait for the task to end.
CanJoin_NoWait(k) == spawned = Len(pictures) /\ k <= spawned

\* The join loop may await task k once the scheduling loop is over and k ended.
CanJoin(k) == spawned = Len(pictures) /\ k <= spawned /\ k \notin running

\* One iteration of `for task in tasks { task.await }`.
Join ==
    /\ bpc = "run"
    /\ CanJoin(joined + 1)
    /\ joined' = joined + 1
    /\ UNCHANGED <<webVars, names, parserRun, cli, page, page_count, albums, last, accessLog, randomOps, bpc, balbum,
                   pictures, spawned, running, permits, progress, files, dirCreated,
                   bresult>>

\* download_pictures returns once both loops are over.
CanReturn == spawned = Len(pictures) /\ joined = spawned

\* pb.finish_with_message; Ok(())
BatchReturn ==
    /\ bpc = "run"
    /\ CanReturn
    /\ bpc' = "idle"
    /\ bresult' = BatchResult(Len(pictures), progress)
    /\ last' = [last EXCEPT !.res = BatchResult(Len(pictures), progress)]
    /\ UNCHANGED <<webVars, names, parserRun, cli, page, page_count, albums, accessLog, randomOps, balbum, pictures,
                   spawned, running, permits, joined, progress, files, dirCreated>>

\* ------------------------------------------------------ util::filenamify
\* A string is a sequence of characters.

\* The characters of the class of RESERVED: < > : " / \ | ? * and the control
\* characters U+0000-U+001F, U+007F-U+009F (of which the line feed stands here).
ReservedChars == {"<", ">", ":", "\"", "/", "\\", "|", "?", "*", "\n"}

\* The characters \d matches (of which the ASCII digits stand here).
Digits == {"0", "1", "2", "3", "4", "5", "6", "7", "8", "9"}

\* RESERVED.replace_all(s, rep): every maximal run of reserved characters
\* becomes one rep.
RECURSIVE ReplaceReserved(_, _, _)
ReplaceReserved(s, rep, inRun) ==
    IF s = <<>> THEN <<>>
    ELSE IF Head(s) \in ReservedChars
    THEN (IF inRun THEN <<>> ELSE rep) \o ReplaceReserved(Tail(s), rep, TRUE)
    ELSE <<Head(s)>> \o ReplaceReserved(Tail(s), rep, FALSE)

\* Length of the run of periods s starts with.
RECURSIVE LeadingPeriods(_)
LeadingPeriods(s) ==
    IF s = <<>> \/ Head(s) # "." THEN 0 ELSE 1 + LeadingPeriods(Tail(s))

\* Length of the run of periods s ends with.
RECURSIVE TrailingPeriods(_)
TrailingPeriods(s) ==
    IF s = <<>> \/ s[Len(s)] # "." THEN 0
    ELSE 1 + TrailingPeriods(SubSeq(s, 1, Len(s) - 1))

\* A replacement of outer periods that takes one period at each end ("^\.|\.$").
ReplaceOuterPeriods_One(s, rep) ==
    LET a == IF LeadingPeriods(s) > 0 THEN 1 ELSE 0
        b == IF TrailingPeriods(s) > 0 /\ Len(s) > a THEN 1 ELSE 0 IN
    (IF a > 0 THEN rep ELSE <<>>)
        \o SubSeq(s, a + 1, Len(s) - b)
        \o (IF b > 0 THEN rep ELSE <<>>)

\* OUTER_PERIODS.replace_all(s, rep), OUTER_PERIODS = "^\.+|\.+$": the leading
\* run of periods becomes one rep, and so does the trailing run if it is another
\* one.
ReplaceOuterPeriods(s, rep) ==
    LET a == LeadingPeriods(s)
        b == IF a = Len(s) THEN 0 ELSE TrailingPeriods(s) IN
    (IF a > 0 THEN rep ELSE <<>>)
        \o SubSeq(s, a + 1, Len(s) - b)
        \o (IF b > 0 THEN rep ELSE <<>>)

\* WINDOWS_RESERVED.is_match(s), WINDOWS_RESERVED = "^(con|prn|aux|nul|com\d|lpt\d)$":
\* the whole string, in lower case as written.
WindowsReserved(s) ==
    \/ s \in {<<"c", "o", "n">>, <<"p", "r", "n">>, <<"a", "u", "x">>, <<"n", "u", "l">>}
    \/ \E d \in Digits : s = <<"c", "o", "m", d>> \/ s = <<"l", "p", "t", d>>

\* util::filenamify(input, replacement)
filenamify(input, replacement) ==
    LET a == ReplaceReserved(input, replacement, FALSE)
        b == ReplaceOuterPeriods(a, replacement) IN
    IF WindowsReserved(b) THEN b \o replacement ELSE b

\* download_pictures line 80: filenamify(&self.name, "")
Replacement == <<>>

\* The characters album names are drawn from.
NameChars == {"c", "o", "n", "C", "O", "N", "m", "1", ".", "/"}

AlbumNames == UNION {[1..n -> NameChars] : n \in 0..MaxNameLen}

\* An album name enters the sanitization.
NameEnters(nameSet) == names \in {<<x>> : x \in nameSet}

\* filenamify applied to the latest result.
Filenamify ==
    /\ names # <<>>
    /\ Len(names) <= MaxApplications
    /\ names' = Append(names, filenamify(names[Len(names)], Replacement))
    /\ UNCHANGED <<webVars, parserRun, cli, page, page_count, albums, last, accessLog, randomOps, bpc,
                   balbum, pictures, spawned, running, permits, joined, progress, files,
                   dirCreated, bresult>>

\* ------------------------------------------------------ Searcher operations

\* What a caller and the parser saw of one call.
Observed(op, arg, t) ==
    [op |-> op, arg |-> arg, res |-> t.res, some |-> t.some,
     fetched |-> t.fetched, reported |-> t.reported, clampTotal |-> t.clampTotal,
     asked |-> t.asked, rank |-> t.rank]

\* A navigation call that ran as t: the Searcher's fields are t's.
Navigate(op, arg, t) ==
    /\ bpc = "idle"
    /\ page' = t.page
    /\ page_count' = t.page_count
    /\ albums' = t.albums
    /\ last' = Observed(op, arg, t)
    /\ accessLog' = t.log
    /\ BatchIdle
    /\ UNCHANGED <<webVars, names, parserRun, cli>>

Current(R) == \E r \in R : Navigate("current", 0, CurrentOp(Begin, r))

First(R) == \E r \in R : Navigate("first", 0, FirstOp(Begin, r))

\* The answers to the discovery fetch, asked for only while the total is unknown.
DiscoveryAnswers(R) == IF page_count = 0 THEN R ELSE {CHOOSE r \in R : TRUE}

Last(R) ==
    \E r1 \in DiscoveryAnswers(R), r2 \in R :
        Navigate("last", 0, LastOp(Begin, r1, r2))

NextPage(R) == \E r \in R : Navigate("next", 0, NextOp(Begin, r))

PrevPage(R) == \E r \in R : Navigate("prev", 0, PrevOp(Begin, r))

Jump(R, args) ==
    \E n \in args, r1 \in DiscoveryAnswers(R), r2 \in R :
        Navigate("jump", n, JumpOp(Begin, n, r1, r2))

\* AlbumSearcher::download: an error of its own checks, or the start of
\* download_pictures on the selected album (whose Result it returns).
Download(indices) ==
    \E idx \in indices :
        LET t == DownloadOp(Begin, idx) IN
        /\ bpc = "idle"
        /\ page' = t.page
        /\ page_count' = t.page_count
        /\ albums' = t.albums
        /\ last' = Observed("download", idx, t)
        /\ accessLog' = t.log
        /\ UNCHANGED <<webVars, names, parserRun, cli>>
        /\ IF t.hand = <<>>
           THEN BatchIdle
           ELSE /\ bpc' = "list"
                /\ balbum' = t.hand
                /\ pictures' = <<>>
                /\ spawned' = 0
                /\ running' = {}
                /\ permits' = Permits
                /\ joined' = 0
                /\ progress' = 0
                /\ files' = {}
                /\ dirCreated' = FALSE
                /\ bresult' = "none"

\* ------------------------------------------------------- the web server
\* src/bin/web.rs: handlers run concurrently, on WebState's two DashMaps.

\* DiLi360Parser::PARSER_CODE, SFTKParser::PARSER_CODE
RegisteredCodes == {"DILI360", "SFTK"}

\* The parser codes requests carry.
QueryCodes == {"DILI360", "sftk", "NOPE"}

\* str::to_uppercase on a query code.
ToUppercase(code) == IF code = "sftk" THEN "SFTK" ELSE code

\* A parse that falls back on parser::default_parser().
ParseCode_Default(code) ==
    IF ToUppercase(code) \in RegisteredCodes THEN <<ToUppercase(code)>> ELSE <<"DILI360">>

\* parser::parse: Ok(parser) as <<the parser's code>>, Err as <<>>.
ParseCode(code) ==
    IF ToUppercase(code) \in RegisteredCodes THEN <<ToUppercase(code)>> ELSE <<>>

\* The keywords requests carry.
Keywords == {"yunnan"}

\* format!("{}-{}", query.parser_code, query.keyword)
SearcherKey(code, keyword) == <<code, "-", keyword>>

SearcherKeys == {SearcherKey(c, k) : c \in QueryCodes, k \in Keywords}

Clients == {1, 2}

\* No response yet.
NoResponse ==
    [code |-> 0, message |-> "", n |-> 0, page |-> 0, page_total |-> 0,
     fetched |-> <<>>, searcherPage |-> 0]

\* A client with no request in flight.
NoRequest ==
    [pc |-> "idle", kind |-> "none", parser_code |-> "", keyword |-> "", page |-> 0,
     resp |-> NoResponse]

\* A Searcher operation on the Searcher s of the cache.
BeginWith(s) ==
    [Begin EXCEPT !.page = s.page, !.page_count = s.page_count, !.albums = s.albums,
                  !.log = <<>>]

\* search_albums lines 176-182: parser::parse; an unknown code is answered at once.
SearchBegin(i, pages) ==
    /\ req[i].pc = "idle"
    /\ received < MaxRequests
    /\ received' = received + 1
    /\ \E c \in QueryCodes, k \in Keywords, n \in pages :
           LET q == [NoRequest EXCEPT !.kind = "search", !.parser_code = c,
                                      !.keyword = k, !.page = n] IN
           IF ParseCode(c) = <<>>
           THEN req' = [req EXCEPT ![i] =
                           [q EXCEPT !.resp = [NoResponse EXCEPT
                                                   !.code = -1,
                                                   !.message = "unknown parser",
                                                   !.page = n,
                                                   !.page_total = 0]]]
           ELSE req' = [req EXCEPT ![i] = [q EXCEPT !.pc = "lookup"]]
    /\ UNCHANGED <<searcher_cache, parser_cache, guard, names, parserRun, cli, page, page_count, albums,
                   last, accessLog, randomOps, bpc, balbum, pictures, spawned, running,
                   permits, joined, progress, files, dirCreated, bresult>>

\* search_albums line 185: searcher_cache.get_mut(&searcher_key); Some keeps the
\* RefMut (the exclusive lock of the entry's shard), None keeps nothing.
SearchLookup(i) ==
    /\ req[i].pc = "lookup"
    /\ guard = 0
    /\ IF searcher_cache[SearcherKey(req[i].parser_code, req[i].keyword)] # <<>>
       THEN /\ guard' = i
            /\ req' = [req EXCEPT ![i].pc = "jump"]
       ELSE /\ guard' = guard
            /\ req' = [req EXCEPT ![i].pc = "insert"]
    /\ UNCHANGED <<searcher_cache, parser_cache, received, names, parserRun, cli, page, page_count,
                   albums, last, accessLog, randomOps, bpc, balbum, pictures, spawned,
                   running, permits, joined, progress, files, dirCreated, bresult>>

\* search_albums lines 188-189: AlbumSearcher::new, searcher_cache.insert, which
\* replaces the value of a key already present.
SearchInsert(i) ==
    /\ req[i].pc = "insert"
    /\ guard = 0
    /\ searcher_cache' =
           [searcher_cache EXCEPT ![SearcherKey(req[i].parser_code, req[i].keyword)] =
                <<NewSearcher>>]
    /\ req' = [req EXCEPT ![i].pc = "get"]
    /\ UNCHANGED <<parser_cache, guard, received, names, parserRun, cli, page, page_count, albums, last,
                   accessLog, randomOps, bpc, balbum, pictures, spawned, running,
                   permits, joined, progress, files, dirCreated, bresult>>

\* search_albums line 190: searcher_cache.get_mut(&searcher_key).unwrap()
SearchGet(i) ==
    /\ req[i].pc = "get"
    /\ guard = 0
    /\ guard' = i
    /\ req' = [req EXCEPT ![i].pc = "jump"]
    /\ UNCHANGED <<searcher_cache, parser_cache, received, names, parserRun, cli, page, page_count,
                   albums, last, accessLog, randomOps, bpc, balbum, pictures, spawned,
                   running, permits, joined, progress, files, dirCreated, bresult>>

\* search_albums lines 194-212: searcher.jump(&query.page) under the RefMut, the
\* response, and the drop of the RefMut at the end of the handler.
SearchJump(i, R) ==
    /\ req[i].pc = "jump"
    /\ guard = i
    /\ LET key == SearcherKey(req[i].parser_code, req[i].keyword)
           s == searcher_cache[key][1] IN
       \E r1 \in (IF s.page_count = 0 THEN R ELSE {CHOOSE r \in R : TRUE}), r2 \in R :
           LET t == JumpOp(BeginWith(s), req[i].page, r1, r2)
               got == LruValue(t.albums, PageKey(t.page)) IN
           /\ searcher_cache' =
                  [searcher_cache EXCEPT ![key] =
                       <<[page |-> t.page, page_count |-> t.page_count,
                          albums |-> t.albums]>>]
           /\ req' = [req EXCEPT ![i].pc = "idle",
                                 ![i].resp =
                                     [code |-> IF t.res = "ok" THEN 0 ELSE -1,
                                      message |-> IF t.res = "ok" THEN "success"
                                                  ELSE "search error",
                                      n |-> IF t.res = "ok" /\ t.some THEN Len(got[1]) ELSE 0,
                                      page |-> req[i].page,
                                      page_total |-> t.page_count,
                                      fetched |-> t.fetched,
                                      searcherPage |-> t.page]]
    /\ guard' = 0
    /\ UNCHANGED <<parser_cache, received, names, parserRun, cli, page, page_count, albums, last,
                   accessLog, randomOps, bpc, balbum, pictures, spawned, running,
                   permits, joined, progress, files, dirCreated, bresult>>

\* get_album_by_url lines 221-236: parser_cache.get, and parser::parse when the
\* code is not cached; an unknown code is answered at once.
PicturesBegin(i) ==
    /\ req[i].pc = "idle"
    /\ received < MaxRequests
    /\ received' = received + 1
    /\ \E c \in QueryCodes :
           LET q == [NoRequest EXCEPT !.kind = "pictures", !.parser_code = c] IN
           IF c \in parser_cache
           THEN req' = [req EXCEPT ![i] = [q EXCEPT !.pc = "list"]]
           ELSE IF ParseCode(c) = <<>>
           THEN req' = [req EXCEPT ![i] =
                           [q EXCEPT !.resp = [NoResponse EXCEPT
                                                   !.code = -1,
                                                   !.message = "unknown parser"]]]
           ELSE req' = [req EXCEPT ![i] = [q EXCEPT !.pc = "pinsert"]]
    /\ UNCHANGED <<searcher_cache, parser_cache, guard, names, parserRun, cli, page, page_count, albums,
                   last, accessLog, randomOps, bpc, balbum, pictures, spawned, running,
                   permits, joined, progress, files, dirCreated, bresult>>

\* get_album_by_url lines 226-227: parser_cache.insert, get. The Ref that get
\* returns (a shared lock, held to the end of the handler) only delays an insert
\* of another request; it is not part of the state.
PicturesInsert(i) ==
    /\ req[i].pc = "pinsert"
    /\ parser_cache' = parser_cache \cup {req[i].parser_code}
    /\ req' = [req EXCEPT ![i].pc = "list"]
    /\ UNCHANGED <<searcher_cache, guard, received, names, parserRun, cli, page, page_count, albums,
                   last, accessLog, randomOps, bpc, balbum, pictures, spawned, running,
                   permits, joined, progress, files, dirCreated, bresult>>

\* get_album_by_url lines 238-250: parser.get_all_pictures(url) and the response.
PicturesList(i) ==
    /\ req[i].pc = "list"
    /\ \E ok \in BOOLEAN :
           req' = [req EXCEPT ![i].pc = "idle",
                              ![i].resp =
                                  [NoResponse EXCEPT
                                       !.code = IF ok THEN 0 ELSE -1,
                                       !.message = IF ok THEN "success"
                                                   ELSE "get album pictures error",
                                       !.fetched = <<"url">>]]
    /\ UNCHANGED <<searcher_cache, parser_cache, guard, received, names, parserRun, cli, page,
                   page_count, albums, last, accessLog, randomOps, bpc, balbum, pictures,
                   spawned, running, permits, joined, progress, files, dirCreated,
                   bresult>>

\* ------------------------------------------------------------ the site parsers
\* One call of a site parser at a time: parse_albums (one fetch and its
\* parsing) or get_all_pictures (one fetch per step). InnerParser.page_count is
\* 0 from InnerParser::new on and no method writes it (all take &self).

\* Result<T>: Ok(value) or Err of a kind.
Ok(v) == [ok |-> TRUE, value |-> v, err |-> "none"]
Err(kind) == [ok |-> FALSE, value |-> 0, err |-> kind]

\* The first text node of an element the page-indicator selector matched: none,
\* a text that is no u32, or the digits of a number.
IndicatorTexts ==
    {[kind |-> "none", value |-> 0], [kind |-> "word", value |-> 0]}
    \cup {[kind |-> "number", value |-> n] : n \in 0..MaxTotal}

\* The sequences over s of length at most n.
SeqsUpTo(s, n) == UNION {[1..k -> s] : k \in 0..n}

\* A fetched search result page: its result entries in document order (TRUE = it
\* has both a link target and a text) and the elements its parser's
\* page-indicator selector matches, in document order.
SearchDocuments ==
    [entries : SeqsUpTo(BOOLEAN, MaxAlbums), pagers : SeqsUpTo(IndicatorTexts, MaxPagers)]

\* DiLi360Parser::parse_page_count: the number in the last matched element.
DiLi360_parse_page_count(document) ==
    IF document.pagers = <<>> THEN Err("parse error")
    ELSE LET text == document.pagers[Len(document.pagers)] IN
         IF text.kind = "none" THEN Err("parse error")
         ELSE IF text.kind # "number" THEN Err("parse error")
         ELSE Ok(text.value)

\* SFTKParser::parse_page_count: the number of matched elements.
SFTK_parse_page_count(document) == Ok(Len(document.pagers))

\* Parser::parse_page_count, by parser code.
parse_page_count(code, document) ==
    IF code = "DILI360" THEN DiLi360_parse_page_count(document)
    ELSE SFTK_parse_page_count(document)

\* The albums of a search result page: its complete entries, in document order.
RECURSIVE EntryAlbums(_, _, _)
EntryAlbums(entries, p, k) ==
    IF k > Len(entries) THEN <<>>
    ELSE IF entries[k] THEN <<Album(p, k)>> \o EntryAlbums(entries, p, k + 1)
    ELSE EntryAlbums(entries, p, k + 1)

\* The parser is not running a call.
NoParserRun ==
    [op |-> "none", code |-> "", pc |-> "idle", arg |-> 0,
     document |-> [entries |-> <<>>, pagers |-> <<>>],
     indicators |-> 0, page_count |-> 0, i |-> 0,
     all_pictures |-> <<>>, fetched |-> <<>>, served |-> <<>>,
     res |-> "none", albums |-> <<>>, total |-> 0, out |-> <<>>]

\* Parser::parse_albums(keyword, p, size) of parser `code`. DiLi360 asks its site
\* for page p - 1 in u32: for p = 0 the subtraction panics in a build with
\* overflow checks and wraps in one without, which then fetches as usual.
ParseAlbums(codes, pageArgs) ==
    /\ parserRun.pc = "idle"
    /\ \E code \in codes, p \in pageArgs :
         LET call == [NoParserRun EXCEPT !.op = "parse_albums", !.code = code, !.arg = p] IN
         \/ /\ code = "DILI360" /\ p = 0
            /\ parserRun' = [call EXCEPT !.res = "panic"]
         \/ parserRun' = [call EXCEPT !.res = "fetch error"]
         \/ \E document \in SearchDocuments :
              LET count == parse_page_count(code, document) IN
              parserRun' =
                  IF count.ok
                  THEN [call EXCEPT !.document = document, !.res = "ok",
                                    !.albums = EntryAlbums(document.entries, p, 1),
                                    !.total = count.value]
                  ELSE [call EXCEPT !.document = document, !.res = count.err]
    /\ UNCHANGED <<webVars, names, cli, page, page_count, albums, last, accessLog, randomOps, bpc,
                   balbum, pictures, spawned, running, permits, joined, progress, files,
                   dirCreated, bresult>>

\* The img elements of a fetched album page in document order: the k-th one of
\* page i has the src <<i, k>> or none (<<>>).
PageElements(i) ==
    UNION {{[k \in 1..n |-> IF k \in withSrc THEN <<i, k>> ELSE <<>>] : withSrc \in SUBSET (1..n)}
           : n \in 0..MaxSubPictures}

\* What one fetch of an album page gave get_page_pictures.
PageFailed == [ok |-> FALSE, pictures |-> <<>>]
PageServed(pics) == [ok |-> TRUE, pictures |-> pics]

\* InnerParser::get_page_pictures after its fetch: the src of every element
\* that has one, in document order.
get_page_pictures(elements) == SelectSeq(elements, LAMBDA e : e # <<>>)

\* SFTKParser::get_pagination: matched `.pagelist>a` elements + 1 (its selector
\* is a valid one, so the 0 of a selector that does not parse never comes).
SFTK_get_pagination(indicators) == indicators + 1

\* get_all_pictures(url) is called. No URL reaches the slice url[0..len - 5] of
\* SFTK too short for it: the fetch of a URL that short fails first.
ListBegin(codes) ==
    /\ parserRun.pc = "idle"
    /\ \E code \in codes :
         parserRun' = [NoParserRun EXCEPT !.op = "get_all_pictures", !.code = code,
                                          !.pc = "album"]
    /\ UNCHANGED <<webVars, names, cli, page, page_count, albums, last, accessLog, randomOps, bpc,
                   balbum, pictures, spawned, running, permits, joined, progress, files,
                   dirCreated, bresult>>

\* DiLi360Parser::get_all_pictures: the pictures of the album's one page
\* (fetched[k] = 0 stands for the album URL itself).
DiLi360GetAllPictures ==
    /\ parserRun.pc = "album"
    /\ parserRun.code = "DILI360"
    /\ \/ parserRun' = [parserRun EXCEPT !.pc = "idle", !.res = "fetch error",
                                         !.fetched = Append(@, 0),
                                         !.served = Append(@, PageFailed)]
       \/ \E elements \in PageElements(0) :
            parserRun' = [parserRun EXCEPT !.pc = "idle", !.res = "ok",
                                           !.fetched = Append(@, 0),
                                           !.served = Append(@, PageServed(get_page_pictures(elements))),
                                           !.out = get_page_pictures(elements)]
    /\ UNCHANGED <<webVars, names, cli, page, page_count, albums, last, accessLog, randomOps, bpc,
                   balbum, pictures, spawned, running, permits, joined, progress, files,
                   dirCreated, bresult>>

\* SFTKParser::get_all_pictures lines 443-446: fetch the album page, count its
\* sub-pages.
SFTKGetPagination ==
    /\ parserRun.pc = "album"
    /\ parserRun.code = "SFTK"
    /\ \/ parserRun' = [parserRun EXCEPT !.pc = "idle", !.res = "fetch error",
                                         !.fetched = Append(@, 0)]
       \/ \E n \in 0..MaxIndicators :
            parserRun' = [parserRun EXCEPT !.pc = "pages", !.indicators = n,
                                           !.page_count = SFTK_get_pagination(n),
                                           !.i = 1, !.fetched = Append(@, 0)]
    /\ UNCHANGED <<webVars, names, cli, page, page_count, albums, last, accessLog, randomOps, bpc,
                   balbum, pictures, spawned, running, permits, joined, progress, files,
                   dirCreated, bresult>>

\* A loop body that goes on to the next sub-page when a fetch fails.
SFTKSubPage_SkipFailed ==
    /\ parserRun.pc = "pages"
    /\ parserRun.i <= parserRun.page_count
    /\ \/ parserRun' = [parserRun EXCEPT !.i = @ + 1,
                                         !.fetched = Append(@, parserRun.i),
                                         !.served = Append(@, PageFailed)]
       \/ \E elements \in PageElements(parserRun.i) :
            parserRun' = [parserRun EXCEPT
                              !.i = @ + 1,
                              !.fetched = Append(@, parserRun.i),
                              !.served = Append(@, PageServed(get_page_pictures(elements))),
                              !.all_pictures = @ \o get_page_pictures(elements)]
    /\ UNCHANGED <<webVars, names, cli, page, page_count, albums, last, accessLog, randomOps, bpc,
                   balbum, pictures, spawned, running, permits, joined, progress, files,
                   dirCreated, bresult>>

\* SFTKParser::get_all_pictures lines 447-451, one iteration of
\* `for i in 1..=page_count`: get_page_pictures of `{base}_{i}.html` with `?`,
\* appended to all_pictures.
SFTKSubPage ==
    /\ parserRun.pc = "pages"
    /\ parserRun.i <= parserRun.page_count
    /\ \/ parserRun' = [parserRun EXCEPT !.pc = "idle", !.res = "fetch error",
                                         !.fetched = Append(@, parserRun.i),
                                         !.served = Append(@, PageFailed)]
       \/ \E elements \in PageElements(parserRun.i) :
            parserRun' = [parserRun EXCEPT
                              !.i = @ + 1,
                              !.fetched = Append(@, parserRun.i),
                              !.served = Append(@, PageServed(get_page_pictures(elements))),
                              !.all_pictures = @ \o get_page_pictures(elements)]
    /\ UNCHANGED <<webVars, names, cli, page, page_count, albums, last, accessLog, randomOps, bpc,
                   balbum, pictures, spawned, running, permits, joined, progress, files,
                   dirCreated, bresult>>

\* SFTKParser::get_all_pictures line 453: Ok(all_pictures) after the loop.
SFTKReturn ==
    /\ parserRun.pc = "pages"
    /\ parserRun.i > parserRun.page_count
    /\ parserRun' = [parserRun EXCEPT !.pc = "idle", !.res = "ok",
                                      !.out = parserRun.all_pictures]
    /\ UNCHANGED <<webVars, names, cli, page, page_count, albums, last, accessLog, randomOps, bpc,
                   balbum, pictures, spawned, running, permits, joined, progress, files,
                   dirCreated, bresult>>

\* ---------------------------------------------------------------- the CLI
\* src/main.rs: main's loop prints the prompt, reads a line and runs its
\* command on the one Searcher main holds (the Searcher's fields are page,
\* page_count and albums; cli.searcher tells whether main holds one).

\* PromptContext::new(parser_name): no keyword, no page numbers.
PromptContextNew(parserCode) ==
    [keyword |-> <<>>, current |-> <<>>, total_page |-> <<>>, parser |-> parserCode]

\* main's locals before the loop: no Searcher, the default parser.
NoCli ==
    [pc |-> "prompt", searcher |-> FALSE, parser |-> "DILI360",
     prompt_context |-> PromptContextNew("DILI360")]

\* PromptContext::prompt: with a keyword it unwraps current and total_page,
\* which panics on None.
prompt(context) ==
    IF context.keyword # <<>>
    THEN IF context.current = <<>> \/ context.total_page = <<>>
         THEN [panic |-> TRUE, text |-> <<>>]
         ELSE [panic |-> FALSE,
               text |-> <<context.parser>> \o context.keyword
                        \o context.current \o context.total_page]
    ELSE [panic |-> FALSE, text |-> <<context.parser>>]

\* Command::from_str upper-cases the line it parses, the keyword with it.
UpperKeyword(keyword) == IF keyword = "yunnan" THEN "YUNNAN" ELSE keyword

\* The variables main's loop leaves alone while it prints or reads.
CliIdle ==
    UNCHANGED <<webVars, names, parserRun, page, page_count, albums, last, accessLog, randomOps,
                bpc, balbum, pictures, spawned, running, permits, joined, progress, files,
                dirCreated, bresult>>

\* main lines 212-213: print!("{}", prompt_context.prompt()).
CliPrompt ==
    /\ cli.pc = "prompt"
    /\ bpc = "idle"
    /\ cli' = [cli EXCEPT !.pc = IF prompt(cli.prompt_context).panic
                                 THEN "panic" ELSE "read"]
    /\ CliIdle

\* HELP, SWITCH without a code, a command with a bad argument, an unknown
\* command, an empty line: messages only.
CliMessage ==
    /\ cli.pc = "read"
    /\ cli' = [cli EXCEPT !.pc = "prompt"]
    /\ CliIdle

\* Command::QUIT: main returns.
CliQuit ==
    /\ cli.pc = "read"
    /\ cli' = [cli EXCEPT !.pc = "quit"]
    /\ CliIdle

\* Command::SWITCH(Some(code)): parser::parse, and on Ok a new parser and a new
\* PromptContext; the Searcher stays.
CliSwitch(codes) ==
    /\ cli.pc = "read"
    /\ \E c \in codes :
         LET parsed == ParseCode(ToUppercase(c)) IN
         cli' = IF parsed # <<>>
                THEN [cli EXCEPT !.pc = "prompt", !.parser = parsed[1],
                                 !.prompt_context = PromptContextNew(parsed[1])]
                ELSE [cli EXCEPT !.pc = "prompt"]
    /\ CliIdle

\* get_albums of main.rs after the Searcher call ran as t: on Ok the page
\* numbers of the prompt are set from the Searcher, on Err nothing is.
CliGetAlbums(op, arg, t, context) ==
    /\ page' = t.page
    /\ page_count' = t.page_count
    /\ albums' = t.albums
    /\ last' = Observed(op, arg, t)
    /\ accessLog' = t.log
    /\ BatchIdle
    /\ cli' = [cli EXCEPT
                  !.pc = "prompt",
                  !.searcher = TRUE,
                  !.prompt_context =
                      IF t.res = "ok"
                      THEN [context EXCEPT !.current = <<t.page>>,
                                           !.total_page = <<t.page_count>>]
                      ELSE context]
    /\ UNCHANGED <<webVars, names, parserRun, randomOps>>

\* Command::SEARCH(keyword): a new Searcher, the keyword into the prompt, then
\* get_albums with Command::NEXT.
CliSearch(keywords, R) ==
    /\ cli.pc = "read"
    /\ \E k \in keywords, r \in R :
         CliGetAlbums("next", 0, NextOp(BeginWith(NewSearcher), r),
                      [cli.prompt_context EXCEPT !.keyword = <<UpperKeyword(k)>>])

\* CURRENT, FIRST, LAST, PREV, NEXT, JUMP(n): get_albums on the Searcher, or a
\* message when there is none.
CliNavigate(R, args) ==
    /\ cli.pc = "read"
    /\ IF ~cli.searcher
       THEN /\ cli' = [cli EXCEPT !.pc = "prompt"]
            /\ CliIdle
       ELSE \E r1 \in DiscoveryAnswers(R), r2 \in R :
              \/ CliGetAlbums("current", 0, CurrentOp(Begin, r2), cli.prompt_context)
              \/ CliGetAlbums("first", 0, FirstOp(Begin, r2), cli.prompt_context)
              \/ CliGetAlbums("last", 0, LastOp(Begin, r1, r2), cli.prompt_context)
              \/ CliGetAlbums("prev", 0, PrevOp(Begin, r2), cli.prompt_context)
              \/ CliGetAlbums("next", 0, NextOp(Begin, r2), cli.prompt_context)
              \/ \E n \in args :
                   CliGetAlbums("jump", n, JumpOp(Begin, n, r1, r2), cli.prompt_context)

\* Command::DOWNLOAD(idx): searcher.download(idx), awaited before the next
\* prompt, or a message when there is no Searcher.
CliDownload(indices) ==
    /\ cli.pc = "read"
    /\ cli' = [cli EXCEPT !.pc = "prompt"]
    /\ IF ~cli.searcher
       THEN CliIdle
       ELSE \E idx \in indices :
              LET t == DownloadOp(Begin, idx) IN
              /\ page' = t.page
              /\ page_count' = t.page_count
              /\ albums' = t.albums
              /\ last' = Observed("download", idx, t)
              /\ accessLog' = t.log
              /\ UNCHANGED <<webVars, names, parserRun, randomOps>>
              /\ IF t.hand = <<>>
                 THEN BatchIdle
                 ELSE /\ bpc' = "list"
                      /\ balbum' = t.hand
                      /\ pictures' = <<>>
                      /\ spawned' = 0
                      /\ running' = {}
                      /\ permits' = Permits
                      /\ joined' = 0
                      /\ progress' = 0
                      /\ files' = {}
                      /\ dirCreated' = FALSE
                      /\ bresult' = "none"

\* ---------------------------------------------------------- specifications

NoCall ==
    [op |-> "new", arg |-> 0, res |-> "ok", some |-> FALSE, fetched |-> <<>>,
     reported |-> <<>>, clampTotal |-> <<>>, asked |-> FALSE, rank |-> 0]

\* A Searcher as AlbumSearcher::new leaves it, no download running.
Init ==
    /\ page = NewSearcher.page
    /\ page_count = NewSearcher.page_count
    /\ albums = NewSearcher.albums
    /\ last = NoCall
    /\ accessLog = <<>>
    /\ randomOps = 0
    /\ bpc = "idle"
    /\ balbum = <<>>
    /\ pictures = <<>>
    /\ spawned = 0
    /\ running = {}
    /\ permits = Permits
    /\ joined = 0
    /\ progress = 0
    /\ files = {}
    /\ dirCreated = FALSE
    /\ bresult = "none"
    /\ names = <<>>
    /\ searcher_cache = [k \in SearcherKeys |-> <<>>]
    /\ parser_cache = {}
    /\ guard = 0
    /\ req = [i \in Clients |-> NoRequest]
    /\ received = 0
    /\ parserRun = NoParserRun
    /\ cli = NoCli

NavResponses == Responses(MaxTotal, MaxAlbums)

JumpArgs == 0..(MaxTotal + 1)

DownloadIndices == 0..(MaxAlbums + 1)

\* Navigation model: every Searcher operation, any parser answer, short picture
\* lists.
Next ==
    \/ Current(NavResponses) /\ UNCHANGED randomOps
    \/ First(NavResponses) /\ UNCHANGED randomOps
    \/ Last(NavResponses) /\ UNCHANGED randomOps
    \/ NextPage(NavResponses) /\ UNCHANGED randomOps
    \/ PrevPage(NavResponses) /\ UNCHANGED randomOps
    \/ Jump(NavResponses, JumpArgs) /\ UNCHANGED randomOps
    \/ Download(DownloadIndices) /\ UNCHANGED randomOps
    \/ ListPictures(PictureLists(MaxNavPictures))
    \/ MakeDir
    \/ Spawn
    \/ \E i \in running : UnitFinish(i)
    \/ Join
    \/ BatchReturn

Spec == Init /\ [][Next]_vars

\* next, prev and jump alone.
NextNPJ ==
    \/ NextPage(NavResponses) /\ UNCHANGED randomOps
    \/ PrevPage(NavResponses) /\ UNCHANGED randomOps
    \/ Jump(NavResponses, JumpArgs) /\ UNCHANGED randomOps

SpecNPJ == Init /\ [][NextNPJ]_vars

\* Pipeline model: download_pictures on one album, picture lists longer than
\* the number of permits.
InitBatch ==
    /\ page = 1
    /\ page_count = 1
    /\ albums = <<[key |-> PageKey(1), val |-> <<Album(1, 1)>>]>>
    /\ last = [NoCall EXCEPT !.op = "download", !.arg = 1, !.res = "pending"]
    /\ accessLog = <<PageKey(1)>>
    /\ randomOps = 0
    /\ bpc = "list"
    /\ balbum = <<Album(1, 1)>>
    /\ pictures = <<>>
    /\ spawned = 0
    /\ running = {}
    /\ permits = Permits
    /\ joined = 0
    /\ progress = 0
    /\ files = {}
    /\ dirCreated = FALSE
    /\ bresult = "none"
    /\ names = <<>>
    /\ searcher_cache = [k \in SearcherKeys |-> <<>>]
    /\ parser_cache = {}
    /\ guard = 0
    /\ req = [i \in Clients |-> NoRequest]
    /\ received = 0
    /\ parserRun = NoParserRun
    /\ cli = NoCli

NextBatch ==
    \/ ListPictures(PictureLists(MaxPictures))
    \/ MakeDir
    \/ Spawn
    \/ \E i \in running : UnitFinish(i)
    \/ Join
    \/ BatchReturn

SpecBatch == InitBatch /\ [][NextBatch]_vars

\* The pipeline model with its scheduling: the tokio runtime runs a task that
\* can take a step, so the batch does not stop while a step of it is possible.
\* Its lists are the empty one, a single URL and one longer than the permits.
LivePictureLists == {Alternating(n) : n \in {0, 1, MaxPictures}}

NextBatchLive ==
    \/ ListPictures(LivePictureLists)
    \/ MakeDir
    \/ Spawn
    \/ \E i \in running : UnitFinish(i)
    \/ Join
    \/ BatchReturn

SpecBatchLive == InitBatch /\ [][NextBatchLive]_vars /\ WF_vars(NextBatchLive)

\* The site parsers on their own: any registered parser, any page argument a
\* Searcher passes (0 included, see get_albums).
NextParser ==
    \/ ParseAlbums(RegisteredCodes, 0..MaxTotal)
    \/ ListBegin(RegisteredCodes)
    \/ DiLi360GetAllPictures
    \/ SFTKGetPagination
    \/ SFTKSubPage
    \/ SFTKReturn

SpecParser == Init /\ [][NextParser]_vars

\* The command-line tool: any command at each prompt, any parser answer, short
\* picture lists.
NextCli ==
    \/ CliPrompt
    \/ CliMessage
    \/ CliQuit
    \/ CliSwitch(QueryCodes)
    \/ CliSearch(Keywords, NavResponses)
    \/ CliNavigate(NavResponses, JumpArgs)
    \/ CliDownload(DownloadIndices)
    \/ ListPictures(PictureLists(MaxNavPictures))
    \/ MakeDir
    \/ Spawn
    \/ \E i \in running : UnitFinish(i)
    \/ Join
    \/ BatchReturn

SpecCli == Init /\ [][NextCli]_vars

\* Deep-paging model: a site with more pages than the cache holds, every fetch
\* succeeding; any run of `next` calls, followed by at most MaxRandomOps
\* operations of any kind.
DeepTotal == CacheCapacity + 1

DeepResponses == {[kind |-> "ok", total |-> DeepTotal, n |-> 1]}

DeepJumpArgs == {2, DeepTotal}

Counted == randomOps < MaxRandomOps /\ randomOps' = randomOps + 1

NextDeep ==
    \/ /\ NextPage(DeepResponses)
       /\ IF randomOps = 0 THEN UNCHANGED randomOps ELSE Counted
    \/ Current(DeepResponses) /\ Counted
    \/ First(DeepResponses) /\ Counted
    \/ Last(DeepResponses) /\ Counted
    \/ PrevPage(DeepResponses) /\ Counted
    \/ Jump(DeepResponses, DeepJumpArgs) /\ Counted

SpecDeep == Init /\ [][NextDeep]_vars

\* Name model: filenamify applied in a row to any album name of up to
\* MaxNameLen characters.
InitNames ==
    /\ page = NewSearcher.page
    /\ page_count = NewSearcher.page_count
    /\ albums = NewSearcher.albums
    /\ last = NoCall
    /\ accessLog = <<>>
    /\ randomOps = 0
    /\ bpc = "idle"
    /\ balbum = <<>>
    /\ pictures = <<>>
    /\ spawned = 0
    /\ running = {}
    /\ permits = Permits
    /\ joined = 0
    /\ progress = 0
    /\ files = {}
    /\ dirCreated = FALSE
    /\ bresult = "none"
    /\ NameEnters(AlbumNames)
    /\ searcher_cache = [k \in SearcherKeys |-> <<>>]
    /\ parser_cache = {}
    /\ guard = 0
    /\ req = [i \in Clients |-> NoRequest]
    /\ received = 0
    /\ parserRun = NoParserRun
    /\ cli = NoCli

NextNames == Filenamify

SpecNames == InitNames /\ [][NextNames]_vars

\* What the site answers in the server model: a failure, or a full page of a
\* result of MaxTotal pages.
WebResponses ==
    {r \in NavResponses : r.kind = "fail" \/ (r.total = MaxTotal /\ r.n = MaxAlbums)}

\* Server model: MaxRequests search and list-pictures requests, two of them at
\* a time, on the empty caches of main.
NextWeb ==
    \/ \E i \in Clients : SearchBegin(i, JumpArgs)
    \/ \E i \in Clients : SearchLookup(i)
    \/ \E i \in Clients : SearchInsert(i)
    \/ \E i \in Clients : SearchGet(i)
    \/ \E i \in Clients : SearchJump(i, WebResponses)
    \/ \E i \in Clients : PicturesBegin(i)
    \/ \E i \in Clients : PicturesInsert(i)
    \/ \E i \in Clients : PicturesList(i)

SpecWeb == Init /\ [][NextWeb]_vars

\* ------------------------------------------------------------------ claims

NavOps == {"current", "first", "last", "next", "prev", "jump"}

Take(q, n) == SubSeq(q, 1, IF Len(q) < n THEN Len(q) ELSE n)

\* The current page is in the cache.
CurrentPageCached == LruContains(albums, PageKey(page))

\* A step that is a call of download (the pipeline, if started, has not moved).
DownloadCall(idx) == bpc = "idle" /\ last'.op = "download" /\ last'.arg = idx

\* C1: over any sequence of next/prev/jump calls, whatever totals the parser
\* reports, 1 <= page <= totalPages in every state where totalPages > 0.
C1_PageWithinTotal == page_count > 0 => (1 <= page /\ page <= page_count)

\* C2: totalPages never decreases over any sequence of Searcher operations: a
\* fetch reporting a smaller total does not lower it, and it is never reset to 0.
C2_TotalNeverLowered == [][page_count' >= page_count]_vars

\* C2 witness: a successful fetch has just reported a total below the known one.
C2_SmallerTotalReported ==
    /\ page_count > 0
    /\ \E i \in DOMAIN last.reported : last.reported[i] < page_count

\* C3: jump(0) resolves to page 1; jump(n) with n >= 1 resolves to totalPages
\* when n exceeds the total known after the discovery fetch, and to n otherwise.
C3_JumpClamps ==
    last.op = "jump" =>
        /\ last.arg = 0 => page = 1
        /\ (last.arg >= 1 /\ last.clampTotal # <<>>) =>
               page = IF last.arg > last.clampTotal[1]
                      THEN last.clampTotal[1]
                      ELSE last.arg

\* C3 witness: a successful jump beyond a known total landed on the last page.
C3_JumpBeyondTotal ==
    /\ last.op = "jump"
    /\ last.res = "ok"
    /\ last.clampTotal # <<>>
    /\ last.clampTotal[1] >= 1
    /\ last.arg > last.clampTotal[1]
    /\ page = last.clampTotal[1]

\* C4: download(0) on a positioned Searcher whose current page is cached (with
\* at least one album) fails
\* with InvalidIndex ("error album index"), asks the parser nothing, starts no
\* pipeline and leaves page, totalPages and the cache as they were.
C4_DownloadZeroInvalidIndex ==
    [][(DownloadCall(0) /\ page >= 1 /\ CurrentPageCached
            /\ Len(LruValue(albums, PageKey(page))[1]) >= 1) =>
           /\ last'.res = "error album index"
           /\ last'.fetched = <<>>
           /\ bpc' = "idle"
           /\ UNCHANGED <<page, page_count, albums>>]_vars

\* C5: download(index) fails with NoData ("no data") when nothing was fetched
\* yet or the Searcher is not positioned, and with InvalidIndex when index
\* exceeds the number of albums of the (cached) current page; the pipeline is
\* started in neither case.
C5_DownloadErrors ==
    [][\A idx \in DownloadIndices :
          /\ (DownloadCall(idx) /\ (accessLog = <<>> \/ page = 0)) =>
                 (last'.res = "no data" /\ bpc' = "idle")
          /\ (DownloadCall(idx) /\ page >= 1 /\ CurrentPageCached
                 /\ idx > Len(LruValue(albums, PageKey(page))[1])) =>
                 (last'.res = "error album index" /\ bpc' = "idle")]_vars

\* C6: at no instant of a batch are more than Permits units in flight.
C6_AtMostPermitsInFlight == Cardinality(running) <= Permits

\* C6 witness: every permit is taken and a URL is still waiting to be scheduled.
C6_CapReached ==
    /\ bpc = "run"
    /\ Cardinality(running) = Permits
    /\ spawned < Len(pictures)

\* C7: a unit that fails neither blocks nor cancels its siblings: it gives its
\* permit back like any other, and when the batch returns every URL of the list
\* was scheduled and ran to its own outcome.
C7_FailureIsolated ==
    /\ bpc = "run" => permits + Cardinality(running) = Permits
    /\ bresult = "ok" =>
           \A i \in DOMAIN pictures :
               /\ i <= spawned
               /\ i \notin running
               /\ (i \in files) = DownloadPicture(pictures[i]).written

\* C7 witness: a batch of more URLs than permits returned, in which one unit
\* failed and another wrote its file.
C7_FailedBesideSuccess ==
    /\ bresult = "ok"
    /\ Len(pictures) > Permits
    /\ \E i \in DOMAIN pictures, j \in DOMAIN pictures :
           /\ ~DownloadPicture(pictures[i]).ok
           /\ j \in files

\* C8: the batch returns success whenever listing and directory creation
\* succeeded, however many units failed, and an error only when one of the two
\* failed.
C8_BatchResult ==
    /\ (bpc = "idle" /\ bresult # "none") => (bresult = "ok") = dirCreated
    /\ bresult \in {"none", "ok", "list error", "mkdir error"}
    /\ bresult = "list error" => pictures = <<>>

\* C8 witness: a batch returned success with every one of its units failed.
C8_AllUnitsFailed ==
    /\ bresult = "ok"
    /\ Len(pictures) >= 1
    /\ progress = 0
    /\ files = {}

\* C9: when the batch returns success no unit is in flight: every URL was
\* scheduled, and every task has ended and was joined.
C9_ReturnsAfterAllUnits ==
    bresult = "ok" =>
        /\ running = {}
        /\ spawned = Len(pictures)
        /\ joined = Len(pictures)

\* C9 witness: a batch of more URLs than permits returned.
C9_LargeBatchReturned == bresult = "ok" /\ Len(pictures) > Permits

\* C10: the cache never holds more than CacheCapacity pages; it holds exactly
\* the CacheCapacity most recently accessed ones, so a navigation asks the
\* parser exactly when its page is not among them (never accessed, or evicted).
C10_LruEviction ==
    /\ Len(albums) <= CacheCapacity
    /\ LruKeys(albums) = Take(accessLog, CacheCapacity)
    /\ last.op \in NavOps =>
           (last.asked = ~(1 <= last.rank /\ last.rank <= CacheCapacity))

\* C10 witness: a page accessed before, then evicted, was fetched again while
\* the cache is full.
C10_EvictedPageRefetched ==
    /\ last.op \in NavOps
    /\ last.asked
    /\ last.rank > CacheCapacity
    /\ Len(albums) = CacheCapacity

\* A step that is a call of a navigation operation.
NavCall == bpc = "idle" /\ last'.op \in NavOps

\* C11: a navigation never asks the parser for a page the cache holds; when the
\* page it resolves to is in the cache it succeeds with the cached album list,
\* and a navigation that asks the parser nothing leaves totalPages unchanged.
C11_CacheFirst ==
    [][NavCall =>
          /\ \A i \in DOMAIN last'.fetched :
                 ~LruContains(albums, PageKey(last'.fetched[i]))
          /\ LruContains(albums, PageKey(page')) =>
                 /\ last'.res = "ok"
                 /\ last'.some
                 /\ ~last'.asked
                 /\ LruValue(albums', PageKey(page')) = LruValue(albums, PageKey(page'))
          /\ last'.fetched = <<>> => page_count' = page_count]_vars

\* C11 witness: a navigation was answered from the cache, with a non-empty
\* album list, nothing asked of the parser.
C11_CacheHit ==
    /\ last.op \in NavOps
    /\ last.res = "ok"
    /\ last.some
    /\ last.fetched = <<>>
    /\ page_count >= 1
    /\ CurrentPageCached
    /\ Len(LruValue(albums, PageKey(page))[1]) >= 1

\* C12: filenamify with the pipeline's replacement is idempotent: applied to its
\* own result it returns that result.
C12_Idempotent ==
    \A i \in 2..(Len(names) - 1) : names[i + 1] = names[i]

\* C12 witness: a name that sanitization changed, and not to the empty string,
\* was sanitized a second time.
C12_ChangedNameResanitized ==
    /\ Len(names) >= 3
    /\ names[2] # names[1]
    /\ names[2] # <<>>

\* The lower-case form of a name over NameChars.
LowerCase(s) ==
    [i \in DOMAIN s |-> CASE s[i] = "C" -> "c"
                          [] s[i] = "O" -> "o"
                          [] s[i] = "N" -> "n"
                          [] OTHER -> s[i]]

\* C13: no sanitized album name equals, case-insensitively, a reserved device
\* name (con, prn, aux, nul, com<digit>, lpt<digit>); in particular the
\* sanitized form of "CON" is not "CON".
C13_NeverDeviceName ==
    /\ \A i \in 2..Len(names) : ~WindowsReserved(LowerCase(names[i]))
    /\ (Len(names) >= 2 /\ names[1] = <<"C", "O", "N">>) => names[2] # <<"C", "O", "N">>

\* A step that is a call of op.
Call(op) == bpc = "idle" /\ last'.op = op

\* The Searcher is as one next() on a new Searcher leaves it when the parser
\* reports a total of at least 2: on page 1, page 1 alone ever accessed.
AfterFirstNext ==
    /\ last.op = "next"
    /\ last.fetched = <<1>>
    /\ last.reported # <<>>
    /\ last.reported[1] >= 2
    /\ accessLog = <<PageKey(1)>>

\* C14: next positions to page 1 while the total is unknown, asking the parser
\* for page 1 unless the cache holds it; with a known total it advances the page
\* by exactly 1 below the last page and stays on the last page. A second next()
\* on a new Searcher whose first fetch reported a total >= 2 resolves to page 2,
\* with totalPages >= page.
C14_Next ==
    [][Call("next") =>
          /\ page_count = 0 =>
                 /\ page' = 1
                 /\ last'.fetched =
                        IF LruContains(albums, PageKey(1)) THEN <<>> ELSE <<1>>
          /\ (page_count > 0 /\ page < page_count) => page' = page + 1
          /\ (page_count > 0 /\ page >= page_count) => page' = page
          /\ AfterFirstNext => (page' = 2 /\ page_count' >= page')]_vars

\* C14 witness: the second of two next() calls fetched page 2 successfully.
C14_SecondNextOnPageTwo ==
    /\ last.op = "next"
    /\ last.res = "ok"
    /\ last.fetched = <<2>>
    /\ page = 2
    /\ page_count >= 2
    /\ accessLog = <<PageKey(2), PageKey(1)>>

\* The pages a discovery fetch asks the parser for: page 1 unless cached.
DiscoveryFetch == IF LruContains(albums, PageKey(1)) THEN <<>> ELSE <<1>>

\* C15: last on an unknown total first resolves page 1 (the discovery fetch; a
\* failure ends the call there), then positions to the total now known and
\* resolves that page; on a known total it positions to it and resolves that
\* page, with no discovery fetch.
C15_Last ==
    [][Call("last") =>
          /\ page_count > 0 =>
                 /\ page' = page_count
                 /\ last'.fetched =
                        IF LruContains(albums, PageKey(page_count))
                        THEN <<>> ELSE <<page_count>>
          /\ (page_count = 0 /\ DiscoveryFetch = <<1>> /\ last'.reported = <<>>) =>
                 /\ last'.res = "fetch error"
                 /\ last'.fetched = <<1>>
                 /\ page' = 1
          /\ (page_count = 0 /\ ~(DiscoveryFetch = <<1>> /\ last'.reported = <<>>)) =>
                 LET total == IF DiscoveryFetch = <<>> THEN 0 ELSE last'.reported[1] IN
                 /\ page' = total
                 /\ last'.fetched =
                        DiscoveryFetch \o
                        (IF LruContains(albums, PageKey(total))
                               \/ (total = 1 /\ DiscoveryFetch = <<1>>)
                         THEN <<>> ELSE <<total>>)]_vars

\* C15 witness: last on an unknown total fetched page 1, then the last page of
\* the total it discovered.
C15_LastAfterDiscovery ==
    /\ last.op = "last"
    /\ last.res = "ok"
    /\ Len(last.fetched) = 2
    /\ last.fetched[1] = 1
    /\ last.fetched[2] = last.reported[1]
    /\ page = last.reported[1]
    /\ page >= 2

\* The Searcher's fields and the caller's result agree between two runs.
SameOutcome(a, b) ==
    /\ a.page = b.page
    /\ a.page_count = b.page_count
    /\ a.albums = b.albums
    /\ a.log = b.log
    /\ a.res = b.res
    /\ a.some = b.some

\* C16: in every state with an unknown total, jump(n) ends in the state that
\* next() followed by jump(n) ends in, the site answering alike for a page in
\* both runs (r1 for page 1, r2 for the page jumped to): same page, totalPages,
\* cache and result; for n >= 1 the first fetch of jump(n) is that of next().
C16_JumpDiscoversLikeNext ==
    page_count = 0 =>
        \A n \in JumpArgs, r1 \in NavResponses, r2 \in NavResponses :
            LET first == IF n < 1 THEN r2 ELSE r1
                alone == JumpOp(Begin, n, r1, r2)
                next == NextOp(Begin, first)
                both == JumpOp(next, n, first, r2)
            IN  /\ SameOutcome(alone, both)
                /\ n >= 1 => Take(alone.fetched, Len(next.fetched)) = next.fetched

\* C16 witness: a jump on an unknown total fetched page 1, then the page asked
\* for.
C16_JumpAfterDiscovery ==
    /\ last.op = "jump"
    /\ last.res = "ok"
    /\ last.arg >= 2
    /\ last.fetched = <<1, last.arg>>
    /\ page = last.arg

\* C17: a successful Search response carries the page the Searcher resolved to
\* (the requested page after clamping) and the Searcher's totalPages.
C17_ResponseCarriesSearcherPage ==
    \A i \in Clients :
        (req[i].kind = "search" /\ req[i].pc = "idle" /\ req[i].resp.message = "success") =>
            req[i].resp.page = req[i].resp.searcherPage

\* A parser code that matches no registered code (in any letter case).
Unregistered(code) == ToUppercase(code) \notin RegisteredCodes

\* C18: a Search or List-pictures request with an unregistered parser code is
\* answered "unknown parser" in its first step, with no fetch and with both
\* caches (and the lock) untouched; no cache ever holds an entry for such a code.
C18_UnknownParserNoEffect ==
    [][/\ \A i \in Clients :
              (req[i].pc = "idle" /\ req'[i] # req[i] /\ Unregistered(req'[i].parser_code)) =>
                  /\ req'[i].pc = "idle"
                  /\ req'[i].resp.code = -1
                  /\ req'[i].resp.message = "unknown parser"
                  /\ req'[i].resp.fetched = <<>>
                  /\ UNCHANGED <<searcher_cache, parser_cache, guard>>
       /\ \A c \in QueryCodes :
              Unregistered(c) =>
                  /\ c \notin parser_cache'
                  /\ \A k \in Keywords : searcher_cache'[SearcherKey(c, k)] = <<>>]_vars

\* C18 witness: a Search and a List-pictures request with an unregistered code
\* were both answered "unknown parser".
C18_BothAnsweredUnknownParser ==
    \E i \in Clients, j \in Clients :
        /\ req[i].kind = "search"
        /\ Unregistered(req[i].parser_code)
        /\ req[i].resp.message = "unknown parser"
        /\ req[j].kind = "pictures"
        /\ Unregistered(req[j].parser_code)
        /\ req[j].resp.message = "unknown parser"

\* The pages a Searcher of the cache holds.
CachedPages(entry) == {entry[1].albums[i].key : i \in DOMAIN entry[1].albums}

\* C19: no step on the shared searcher cache discards what a Searcher has
\* accumulated: an entry stays, its totalPages does not shrink and the pages it
\* has cached stay cached.
C19_InsertKeepsSearcherState ==
    [][\A k \in SearcherKeys :
          searcher_cache[k] # <<>> =>
              /\ searcher_cache'[k] # <<>>
              /\ searcher_cache'[k][1].page_count >= searcher_cache[k][1].page_count
              /\ CachedPages(searcher_cache[k]) \subseteq CachedPages(searcher_cache'[k])]_vars

\* C20: every reachable Searcher state is Uninitialized (page = 0, totalPages =
\* 0), Positioned-unknown-total (page >= 1, totalPages = 0) or
\* Positioned-known-total (page >= 1, totalPages >= 1); page = 0 with
\* totalPages >= 1 is never reached.
C20_ThreeStates ==
    \/ page = 0 /\ page_count = 0
    \/ page >= 1 /\ page_count = 0
    \/ page >= 1 /\ page_count >= 1

\* C21: every page index a Searcher operation hands to the parser is at least
\* 1, so the site offset page - 1 of the 0-based site is never below 0.
C21_PagesOneBased ==
    \A i \in DOMAIN last.fetched : last.fetched[i] >= 1 /\ last.fetched[i] - 1 >= 0

\* The larger of the total known before a call and the totals reported in it.
RECURSIVE MaxTotalOf(_, _)
MaxTotalOf(known, reported) ==
    IF reported = <<>> THEN known
    ELSE MaxTotalOf(IF Head(reported) > known THEN Head(reported) ELSE known,
                    Tail(reported))

\* C22: a navigation that succeeds returns Some list; every page it fetched is
\* a miss now cached under its page key, totalPages is the maximum of the old
\* total and the totals reported, and after a fetch of the page it resolves to,
\* the returned list is the one just cached for that page.
C22_MissCachesAndReturns ==
    [][(NavCall /\ last'.res = "ok") =>
          /\ last'.some
          /\ LruValue(albums', PageKey(page')) # <<>>
          /\ Len(last'.reported) = Len(last'.fetched)
          /\ page_count' = MaxTotalOf(page_count, last'.reported)
          /\ \A i \in DOMAIN last'.fetched :
                 /\ ~LruContains(albums, PageKey(last'.fetched[i]))
                 /\ LruContains(albums', PageKey(last'.fetched[i]))
          /\ (last'.fetched # <<>> /\ last'.fetched[Len(last'.fetched)] = page') =>
                 /\ albums'[1].key = PageKey(page')
                 /\ \A j \in DOMAIN albums'[1].val : albums'[1].val[j] = Album(page', j)]_vars

\* C22 witness: a navigation fetched its page, was given albums and a total
\* below the known one, and returned the list.
C22_MissReturnedFreshList ==
    /\ last.op \in NavOps
    /\ last.res = "ok"
    /\ last.some
    /\ last.fetched = <<page>>
    /\ page >= 2
    /\ last.reported[1] < page_count
    /\ Len(LruValue(albums, PageKey(page))[1]) >= 1

\* The entries of a cache, whatever their order of recency.
Contents(c) == {c[i] : i \in DOMAIN c}

\* A navigation step in which a call of the parser failed: a page was asked
\* for and no total came back for it.
FetchFailedIn(obs) == Len(obs.fetched) > Len(obs.reported)

\* C23 as claimed: a navigation in which the parser fails returns the error,
\* and leaves the cache contents and totalPages exactly as they were before the
\* operation, with no entry for the failed page.
C23_FailureLeavesStateUntouched ==
    [][(NavCall /\ FetchFailedIn(last')) =>
          /\ last'.res = "fetch error"
          /\ Contents(albums') = Contents(albums)
          /\ page_count' = page_count
          /\ ~LruContains(albums', PageKey(last'.fetched[Len(last'.fetched)]))]_vars

\* C23 amended: a navigation returns the error exactly when a call of the
\* parser failed in it; the failed fetch ends the operation, caches nothing for
\* its page and changes no total. The cache contents and totalPages are as
\* before the operation when the failed fetch was its first; in last and jump
\* a discovery fetch that succeeded before keeps its effect: its page is
\* cached and totalPages is the maximum of the old total and the one it
\* reported.
C23_FailurePropagates ==
    [][NavCall =>
          /\ FetchFailedIn(last') = (last'.res = "fetch error")
          /\ FetchFailedIn(last') =>
                 LET failed == last'.fetched[Len(last'.fetched)]
                     before == SubSeq(last'.fetched, 1, Len(last'.fetched) - 1) IN
                 /\ Len(last'.fetched) = Len(last'.reported) + 1
                 /\ ~last'.some
                 /\ ~LruContains(albums', PageKey(failed))
                 /\ page_count' = MaxTotalOf(page_count, last'.reported)
                 /\ Contents(albums) \subseteq Contents(albums')
                 /\ before = <<>> =>
                        (Contents(albums') = Contents(albums) /\ page_count' = page_count)
                 /\ before # <<>> =>
                        (before = <<1>> /\ last'.op \in {"last", "jump"}
                                        /\ LruContains(albums', PageKey(1)))]_vars

\* C23 witness: the fetch of the page jumped to failed after the discovery
\* fetch of the same jump had succeeded and set the total.
C23_FailedAfterDiscovery ==
    /\ last.op = "jump"
    /\ last.res = "fetch error"
    /\ Len(last.fetched) = 2
    /\ last.fetched[1] = 1
    /\ page_count >= 2
    /\ LruContains(albums, PageKey(1))
    /\ ~CurrentPageCached

\* C24: the pipeline runs listing, then directory creation, then the units: a
\* unit is scheduled, counted or writes a file only after both succeeded, the
\* directory is created only after the listing succeeded, and a batch whose
\* listing (or directory creation) failed has no directory (no unit).
C24_PipelineOrder ==
    /\ (spawned > 0 \/ running # {} \/ files # {} \/ progress > 0) =>
           (dirCreated /\ bpc \in {"run", "idle"})
    /\ dirCreated => (bpc \in {"run", "idle"} /\ bresult \in {"none", "ok"})
    /\ bpc \in {"list", "mkdir"} => (~dirCreated /\ spawned = 0)
    /\ bpc = "list" => pictures = <<>>
    /\ bresult = "list error" => (~dirCreated /\ spawned = 0 /\ files = {})
    /\ bresult = "mkdir error" => (~dirCreated /\ spawned = 0 /\ files = {})

\* C24 witness: units are running and a file is written, after the listing and
\* the directory creation.
C24_UnitsAfterDirectory ==
    /\ bpc = "run"
    /\ dirCreated
    /\ running # {}
    /\ files # {}

\* The units that ended, and those of them that ended in success.
EndedUnits == (1..spawned) \ running

SucceededUnits == {i \in EndedUnits : DownloadPicture(pictures[i]).ok}

C26_BatchTerminates ==
    <>(/\ bpc = "idle"
       /\ dirCreated => /\ bresult = "ok"
                        /\ spawned = Len(pictures)
                        /\ running = {}
                        /\ permits = Permits)

\* C26 witness: a batch of more URLs than permits returned after failed units,
\* all permits given back.
C26_ReturnedWithAllPermits ==
    /\ bresult = "ok"
    /\ Len(pictures) > Permits
    /\ progress < Len(pictures)
    /\ permits = Permits
    /\ joined = Len(pictures)

\* The picture lists of the pages served, one after the other.
RECURSIVE Concatenation(_)
Concatenation(pages) ==
    IF pages = <<>> THEN <<>> ELSE Head(pages).pictures \o Concatenation(Tail(pages))

ListRun == parserRun.op = "get_all_pictures"

\* C27: listPictures of the multi-page site takes indicator count + 1 as the
\* number of sub-pages, fetches the album page and then sub-pages 1, 2, ... in
\* increasing order, and returns the concatenation of their picture lists in
\* that order; a failed fetch fails the listing, which then returns no list.
\* The single-page site returns the pictures of its one page.
C27_ListPictures ==
    ListRun =>
        /\ parserRun.pc = "pages" =>
               /\ parserRun.page_count = parserRun.indicators + 1
               /\ parserRun.fetched = [k \in 1..parserRun.i |-> k - 1]
               /\ parserRun.all_pictures = Concatenation(parserRun.served)
        /\ (parserRun.pc = "idle" /\ parserRun.code = "SFTK" /\ parserRun.res = "ok") =>
               /\ parserRun.fetched = [k \in 1..(parserRun.indicators + 2) |-> k - 1]
               /\ Len(parserRun.served) = parserRun.indicators + 1
               /\ parserRun.out = Concatenation(parserRun.served)
        /\ (parserRun.pc = "idle" /\ parserRun.code = "DILI360" /\ parserRun.res = "ok") =>
               /\ parserRun.fetched = <<0>>
               /\ parserRun.out = Concatenation(parserRun.served)
        /\ (\E k \in DOMAIN parserRun.served : ~parserRun.served[k].ok) =>
               /\ parserRun.pc = "idle"
               /\ parserRun.res = "fetch error"
               /\ ~parserRun.served[Len(parserRun.served)].ok
        /\ parserRun.res # "ok" => parserRun.out = <<>>

\* C27 witness: a listing of MaxIndicators + 1 sub-pages returned pictures of
\* its first and of its last sub-page.
C27_ThreeSubPagesListed ==
    /\ ListRun
    /\ parserRun.res = "ok"
    /\ parserRun.indicators = MaxIndicators
    /\ Len(parserRun.out) >= 2
    /\ Head(parserRun.out)[1] = 1
    /\ parserRun.out[Len(parserRun.out)][1] = MaxIndicators + 1

\* C28: a parse_albums that returns Ok had a page-indicator element in its
\* document and reports a total of at least 1; a document without that element
\* makes it fail with a parse error.
C28_AbsentIndicatorFails ==
    parserRun.op = "parse_albums" =>
        /\ parserRun.res = "ok" =>
               /\ parserRun.document.pagers # <<>>
               /\ parserRun.total >= 1

\* C29: when the current page (page >= 1) is in the cache with k albums,
\* download(index) with 1 <= index <= k hands the index-th album of that page
\* to the pipeline and answers neither "no data" nor "error album index",
\* whatever totals the parser reported.
C29_CachedPageDownloads ==
    [][\A idx \in DownloadIndices :
          (/\ DownloadCall(idx)
           /\ page >= 1
           /\ CurrentPageCached
           /\ 1 <= idx
           /\ idx <= Len(LruValue(albums, PageKey(page))[1]))
          => /\ last'.res = "pending"
             /\ bpc' = "list"
             /\ balbum' = <<LruValue(albums, PageKey(page))[1][idx]>>]_vars

\* C30: a navigation whose fetch fails leaves the current page index as it was.
C30_FailedNavigationKeepsPage ==
    [][(NavCall /\ FetchFailedIn(last')) => page' = page]_vars

\* C31: a unit writes a file and advances the progress bar only when its
\* picture's response has a success status: no unit whose response has an error
\* status wrote a file, and the progress counts no such unit.
C31_SuccessOnlyOnSuccessStatus ==
    /\ \A i \in files : pictures[i] # "status404"
    /\ progress <= Cardinality({i \in EndedUnits : pictures[i] = "good"})

\* C32: at every prompt of the CLI loop the prompt can be rendered: whenever
\* the prompt context has a keyword, its current page and its total page are
\* set, and the loop never stops on the unwrap of an absent value.
C32_PromptRenders ==
    /\ cli.pc # "panic"
    /\ cli.prompt_context.keyword # <<>> =>
           /\ cli.prompt_context.current # <<>>
           /\ cli.prompt_context.total_page # <<>>

====
